---- MODULE Spec2Model ----
(***************************************************************************)
(* The inventory service of src/main.py: five FastAPI handlers over the    *)
(* SQLite table "products", each request with its own SQLAlchemy session.  *)
(*                                                                         *)
(* A request is served by a worker of the uvicorn server started at the    *)
(* bottom of main.py.  run() is given the application as the import string *)
(* "main:app" and no worker count, so uvicorn serves with as many worker   *)
(* processes as WEB_CONCURRENCY says.  Workers share nothing but the       *)
(* database file inventory.db, and no handler locks anything, so the       *)
(* atomic steps of the model are the statements a handler has its session  *)
(* send: the SELECT of query(...).first() or .all(), the statement flushed *)
(* and committed by session.commit(), and the SELECT of session.refresh(). *)
(* Between two such steps of one request any step of another may run.      *)
(*                                                                         *)
(* Floats are written as integers in hundredths (9.99 is 999).             *)
(***************************************************************************)
EXTENDS Integers, Sequences, FiniteSets, TLC

VARIABLES
    products,    \* the rows of table "products" (src/main.py:76-82)
    slot,        \* the requests in flight, with their sessions and responses
    issued,      \* number of requests received so far
    deletedIds,  \* history: the ids some delete request was answered 200 for
    created,     \* history: inputs of the creates so far, while only creates have written
    pure,        \* history: TRUE while the table started empty and only creates have written
    raised       \* history: TRUE once a request whose handler raised has ended

vars == <<products, slot, issued, deletedIds, created, pure, raised>>

hist == <<deletedIds, created, pure, raised>>

----------------------------------------------------------------------------
(* Bounds of the model *)

\* requests received in a run
MaxRequests == 3

\* requests in flight at a time
MaxInFlight == 2

\* the ids requested in a path are 1..MaxPid
MaxPid == 1

Slots == 1..MaxInFlight
PathIds == 1..MaxPid

----------------------------------------------------------------------------
(* Form input and its validation *)

Missing == "<missing>"

\* text -> int, as the validation layer coerces a form field annotated int
IntOf == ("5" :> 5) @@ ("0" :> 0)

\* text -> float (in hundredths), for a form field annotated float
FloatOf == ("9.99" :> 999) @@ ("5" :> 500) @@ ("0" :> 0)

Widget == [name |-> "Widget", description |-> "A widget", price |-> "9.99", quantity |-> "5"]

NoForm == [name |-> Missing, description |-> Missing, price |-> Missing, quantity |-> Missing]

\* the form submissions the model draws from: two valid ones, one with a
\* field missing, one with a field of the wrong type
Forms ==
    { [Widget EXCEPT !.quantity = "0"],
      [Widget EXCEPT !.name = "Gadget"],
      [Widget EXCEPT !.price = Missing],
      [Widget EXCEPT !.quantity = "five"] }

\* as_form with price left optional and unchecked
as_form_mutant(form) ==
    {c \in {"name", "description"} : form[c] = Missing}
    \cup (IF form.quantity \in DOMAIN IntOf THEN {} ELSE {"quantity"})

\* as_form: every field of ProductInput becomes a required Form(...)
\* parameter of its annotated type; the result is the set of fields the
\* framework reports as missing or of the wrong type
as_form(form) ==
    {c \in {"name", "description"} : form[c] = Missing}
    \cup (IF form.price \in DOMAIN FloatOf THEN {} ELSE {"price"})
    \cup (IF form.quantity \in DOMAIN IntOf THEN {} ELSE {"quantity"})

\* the validated input record
ProductInput(form) ==
    [ name |-> form.name,
      description |-> form.description,
      price |-> IF form.price \in DOMAIN FloatOf THEN FloatOf[form.price] ELSE 0,
      quantity |-> IF form.quantity \in DOMAIN IntOf THEN IntOf[form.quantity] ELSE 0 ]

Columns == {"name", "description", "price", "quantity"}

----------------------------------------------------------------------------
(* The table and the response model *)

\* class Product: the row the ORM builds from an input and a primary key
Product(id, in) ==
    [ _id |-> id, name |-> in.name, description |-> in.description,
      price |-> in.price, quantity |-> in.quantity ]

\* ProductOutput: the response model.  Its annotation "_id: int" starts with
\* an underscore, which the validation library does not take as a field, so
\* the serialised record has the four public fields only.
ProductOutput(row) ==
    [ name |-> row.name, description |-> row.description,
      price |-> row.price, quantity |-> row.quantity ]

Max(S) == CHOOSE x \in S : \A y \in S : y <= x

\* a key taken from the number of rows instead
NextRowid_mutant(tbl) == Cardinality(tbl) + 1

\* the key SQLite gives an inserted row: _id is an INTEGER PRIMARY KEY without
\* AUTOINCREMENT, so it is one more than the largest key in the table
NextRowid(tbl) == IF tbl = {} THEN 1 ELSE Max({r._id : r \in tbl}) + 1

\* session.query(Product).filter(Product._id == product_id).first():
\* the set holding the matching row, empty when there is none
first(tbl, product_id) == {r \in tbl : r._id = product_id}

\* .first() in the place of .all(): the first row only
all_mutant(tbl) ==
    IF tbl = {} THEN <<>> ELSE <<CHOOSE x \in tbl : \A y \in tbl : x._id <= y._id>>

\* session.query(Product).all(): the rows in the table's scan (rowid) order
RECURSIVE all(_)
all(tbl) ==
    IF tbl = {} THEN <<>>
    ELSE LET r == CHOOSE x \in tbl : \A y \in tbl : x._id <= y._id
         IN  <<r>> \o all(tbl \ {r})

NotFound == [status |-> 404, body |-> [detail |-> "Product not found"]]

ServerError == [status |-> 500, body |-> [detail |-> "Internal Server Error"]]

Unprocessable(fields) == [status |-> 422, body |-> [detail |-> fields]]

Deleted == [status |-> 200, body |-> [message |-> "Product deleted successfully"]]

Ok(b) == [status |-> 200, body |-> b]

----------------------------------------------------------------------------
(* Requests *)

Idle ==
    [ op |-> "none", pc |-> "idle", pid |-> 0, form |-> NoForm, sid |-> 0,
      open |-> FALSE, loaded |-> {}, status |-> 0, body |-> <<>> ]

\* inventory.db outlives the server, and main.py never creates or empties
\* the table: the service starts on an empty table or on rows stored before
InitialTables == { {}, {Product(1, ProductInput(Widget))} }

Init ==
    /\ products \in InitialTables
    /\ slot = [s \in Slots |-> Idle]
    /\ issued = 0
    /\ deletedIds = {}
    /\ created = <<>>
    /\ pure = (products = {})
    /\ raised = FALSE

\* the sessions that are open
Sessions == {slot[s].sid : s \in {x \in Slots : slot[x].open}}

\* Session(): a new session object, distinct from every live one
Session(live) == CHOOSE n \in 1..(Cardinality(live) + 1) : n \notin live

\* the handler returns or raises: the response is made and the request is
\* left with the exit of its session dependency
Answer(s, r, resp) ==
    slot' = [slot EXCEPT ![s] = [Idle EXCEPT !.op = r.op, !.pc = "exit", !.sid = r.sid,
                                             !.open = r.open, !.status = resp.status,
                                             !.body = resp.body]]

\* a request arrives at a free worker: the form is bound and validated by
\* as_form and get_session is entered up to its yield; a validation error
\* answers 422 and the handler is not called
Receive(s, op, pid, form, pc) ==
    /\ slot[s].pc = "idle"
    /\ \A x \in Slots : x < s => slot[x].pc # "idle"
    /\ issued < MaxRequests
    /\ issued' = issued + 1
    /\ LET r == [Idle EXCEPT !.op = op, !.pid = pid, !.form = form,
                             !.sid = Session(Sessions), !.open = TRUE]
       IN  IF op \in {"create", "update"} /\ as_form(form) # {}
           THEN Answer(s, r, Unprocessable(as_form(form)))
           ELSE slot' = [slot EXCEPT ![s] = [r EXCEPT !.pc = pc]]
    /\ UNCHANGED <<products, hist>>

post_products(s) == \E form \in Forms : Receive(s, "create", 0, form, "commit")

get_products_request(s) == Receive(s, "list", 0, NoForm, "query")

get_product_request(s) == \E pid \in PathIds : Receive(s, "get", pid, NoForm, "lookup")

put_product(s) ==
    \E pid \in PathIds : \E form \in Forms : Receive(s, "update", pid, form, "lookup")

delete_product_request(s) ==
    \E pid \in PathIds : Receive(s, "delete", pid, NoForm, "lookup")

\* the row a session holds
TheRow(r) == CHOOSE row \in r.loaded : TRUE

----------------------------------------------------------------------------
(* POST /products/ *)

\* Product(...), session.add, session.commit: INSERT and COMMIT
create_product_commit(s) ==
    LET r == slot[s]
        in == ProductInput(r.form)
        row == Product(NextRowid(products), in)
    IN  /\ r.op = "create" /\ r.pc = "commit"
        /\ products' = products \cup {row}
        /\ slot' = [slot EXCEPT ![s] = [r EXCEPT !.pc = "refresh", !.loaded = {row}]]
        /\ created' = IF pure THEN Append(created, in) ELSE <<>>
        /\ UNCHANGED <<issued, deletedIds, pure, raised>>

\* session.refresh(db_product) and the return: the row is read again by its
\* key; a row that is no longer there cannot be refreshed
create_product_refresh(s) ==
    LET r == slot[s]
        hit == first(products, TheRow(r)._id)
    IN  /\ r.op = "create" /\ r.pc = "refresh"
        /\ IF hit = {}
           THEN Answer(s, r, ServerError)
           ELSE Answer(s, r, Ok(ProductOutput(CHOOSE x \in hit : TRUE)))
        /\ UNCHANGED <<products, issued, hist>>

----------------------------------------------------------------------------
(* GET /products/ *)

get_products(s) ==
    LET r == slot[s]
        rows == all(products)
    IN  /\ r.op = "list" /\ r.pc = "query"
        /\ Answer(s, r, Ok([i \in 1..Len(rows) |-> ProductOutput(rows[i])]))
        /\ UNCHANGED <<products, issued, hist>>

----------------------------------------------------------------------------
(* GET /products/{product_id} *)

get_product(s) ==
    LET r == slot[s]
        hit == first(products, r.pid)
    IN  /\ r.op = "get" /\ r.pc = "lookup"
        /\ IF hit = {}
           THEN Answer(s, r, NotFound)
           ELSE Answer(s, r, Ok(ProductOutput(CHOOSE x \in hit : TRUE)))
        /\ UNCHANGED <<products, issued, hist>>

----------------------------------------------------------------------------
(* PUT /products/{product_id} *)

\* update_product without its "if not db_product" check: the missing row is
\* added
update_product_lookup_mutant(s) ==
    LET r == slot[s]
        hit == first(products, r.pid)
        new == Product(r.pid, ProductInput(r.form))
    IN  /\ r.op = "update" /\ r.pc = "lookup"
        /\ slot' = [slot EXCEPT ![s] = [r EXCEPT !.pc = "commit",
                                                 !.loaded = IF hit = {} THEN {new} ELSE hit]]
        /\ products' = IF hit = {} THEN products \cup {new} ELSE products
        /\ UNCHANGED <<issued, hist>>

\* the query for the row and the 404 when there is none
update_product_lookup(s) ==
    LET r == slot[s]
        hit == first(products, r.pid)
    IN  /\ r.op = "update" /\ r.pc = "lookup"
        /\ IF hit = {}
           THEN Answer(s, r, NotFound)
           ELSE slot' = [slot EXCEPT ![s] = [r EXCEPT !.pc = "commit", !.loaded = hit]]
        /\ UNCHANGED <<products, issued, hist>>

\* the columns the unit of work puts in its UPDATE: the attributes whose new
\* value differs from the value the session loaded
Changed(loaded, in) == {c \in Columns : in[c] # loaded[c]}

\* UPDATE products SET <cols> WHERE _id = row._id, applied to the stored row
Flush(row, cols, in) ==
    [ _id |-> row._id,
      name |-> IF "name" \in cols THEN in.name ELSE row.name,
      description |-> IF "description" \in cols THEN in.description ELSE row.description,
      price |-> IF "price" \in cols THEN in.price ELSE row.price,
      quantity |-> IF "quantity" \in cols THEN in.quantity ELSE row.quantity ]

\* the four assignments and session.commit(): no statement when no attribute
\* changed; otherwise the UPDATE, which raises StaleDataError when it matches
\* no row
update_product_commit(s) ==
    LET r == slot[s]
        in == ProductInput(r.form)
        cols == Changed(TheRow(r), in)
        hit == first(products, TheRow(r)._id)
    IN  /\ r.op = "update" /\ r.pc = "commit"
        /\ IF cols # {} /\ hit = {}
           THEN /\ Answer(s, r, ServerError)
                /\ UNCHANGED products
           ELSE /\ products' = (products \ hit) \cup {Flush(row, cols, in) : row \in hit}
                /\ slot' = [slot EXCEPT ![s] = [r EXCEPT !.pc = "refresh"]]
        /\ pure' = FALSE
        /\ created' = <<>>
        /\ UNCHANGED <<issued, deletedIds, raised>>

\* session.refresh(db_product) and the return
update_product_refresh(s) ==
    LET r == slot[s]
        hit == first(products, TheRow(r)._id)
    IN  /\ r.op = "update" /\ r.pc = "refresh"
        /\ IF hit = {}
           THEN Answer(s, r, ServerError)
           ELSE Answer(s, r, Ok(ProductOutput(CHOOSE x \in hit : TRUE)))
        /\ UNCHANGED <<products, issued, hist>>

----------------------------------------------------------------------------
(* DELETE /products/{product_id} *)

delete_product_lookup(s) ==
    LET r == slot[s]
        hit == first(products, r.pid)
    IN  /\ r.op = "delete" /\ r.pc = "lookup"
        /\ IF hit = {}
           THEN Answer(s, r, NotFound)
           ELSE slot' = [slot EXCEPT ![s] = [r EXCEPT !.pc = "commit", !.loaded = hit]]
        /\ UNCHANGED <<products, issued, hist>>

\* session.delete, session.commit, return: DELETE FROM products WHERE _id = ?;
\* a DELETE that matches no row is only warned about
delete_product_commit(s) ==
    LET r == slot[s]
        hit == first(products, TheRow(r)._id)
    IN  /\ r.op = "delete" /\ r.pc = "commit"
        /\ products' = products \ hit
        /\ Answer(s, r, Deleted)
        /\ deletedIds' = deletedIds \cup {r.pid}
        /\ pure' = FALSE
        /\ created' = <<>>
        /\ UNCHANGED <<issued, raised>>

----------------------------------------------------------------------------
(* The session dependency *)

\* get_session without its finally: the close is skipped when the handler
\* raised
get_session_close_mutant(r) == [Idle EXCEPT !.open = (r.status >= 400), !.sid = r.sid]

\* get_session after its yield, entered however the handler ended:
\* finally: session.close()
get_session_close(r) == [Idle EXCEPT !.open = FALSE]

get_session_exit(s) ==
    /\ slot[s].pc = "exit"
    /\ slot' = [slot EXCEPT ![s] = get_session_close(slot[s])]
    /\ raised' = (raised \/ slot[s].status >= 400)
    /\ UNCHANGED <<products, issued, deletedIds, created, pure>>

----------------------------------------------------------------------------

Next ==
    \E s \in Slots :
        \/ post_products(s)
        \/ get_products_request(s)
        \/ get_product_request(s)
        \/ put_product(s)
        \/ delete_product_request(s)
        \/ create_product_commit(s)
        \/ create_product_refresh(s)
        \/ get_products(s)
        \/ get_product(s)
        \/ update_product_lookup(s)
        \/ update_product_commit(s)
        \/ update_product_refresh(s)
        \/ delete_product_lookup(s)
        \/ delete_product_commit(s)
        \/ get_session_exit(s)

Spec == Init /\ [][Next]_vars

----------------------------------------------------------------------------
(* Steps of one request, as seen in a pair of states *)

\* the request in slot s is answered in this step by its handler
Answered(s) == slot[s].pc \notin {"idle", "exit"} /\ slot'[s].pc = "exit"

\* the request in slot s takes its step at pc
Steps(s, op, pc) == slot[s].op = op /\ slot[s].pc = pc /\ slot'[s] # slot[s]

Ids(tbl) == {r._id : r \in tbl}

RowsOf(tbl, id) == {r \in tbl : r._id = id}

UniqueIds(tbl) == \A r1, r2 \in tbl : r1._id = r2._id => r1 = r2

\* a record that carries an id, under either name
HasId(b) == "id" \in DOMAIN b \/ "_id" \in DOMAIN b

\* number of places of the sequence q that hold x
Count(q, x) == Cardinality({i \in 1..Len(q) : q[i] = x})

SameBag(q1, q2) ==
    /\ Len(q1) = Len(q2)
    /\ \A i \in 1..Len(q1) : Count(q1, q1[i]) = Count(q2, q1[i])

\* the forms the specification calls invalid: a required field is absent, or
\* price is no number, or quantity is no integer
NumberTexts == {"9.99", "5", "0"}

IntegerTexts == {"5", "0"}

Malformed(form) ==
    \/ \E c \in Columns : form[c] = Missing
    \/ form.price \notin NumberTexts
    \/ form.quantity \notin IntegerTexts

----------------------------------------------------------------------------
(* Claims *)

\* C1: for a valid input, create_product returns a record that carries the
\* four submitted values and a newly assigned non-null id.  (The claim goes
\* on to the get_product of that id; the formula states what it says of the
\* record create_product returns.)
C1_CreateReturnsTheRecordWithItsId ==
    [][\A s \in Slots :
         (Steps(s, "create", "refresh") /\ slot'[s].status = 200) =>
            /\ HasId(slot'[s].body)
            /\ \A c \in Columns : slot'[s].body[c] = ProductInput(slot[s].form)[c]]_vars

\* C2: no two persisted products have the same id, and update_product never
\* changes the id of a row: its commit leaves every id of the table in place.
C2_IdsUniqueAndKeptByUpdate ==
    [][/\ UniqueIds(products) /\ UniqueIds(products')
       /\ \A s \in Slots :
            Steps(s, "update", "commit") =>
               /\ Ids(products') = Ids(products)
               /\ Cardinality(products') = Cardinality(products)]_vars

C2_Witness ==
    \E s \in Slots :
        /\ slot[s].op = "update" /\ slot[s].pc = "refresh"
        /\ Cardinality(products) >= 2
        /\ \E r \in products : r._id = slot[s].pid /\ ProductOutput(r) = ProductInput(slot[s].form)

\* C3: once a delete_product of id i has succeeded, every get_product and
\* delete_product on i that is looked up afterwards answers 404, whatever
\* was requested in between.
C3_DeletedIdStaysNotFound ==
    [][\A s \in Slots :
         (/\ slot[s].op \in {"get", "delete"}
          /\ slot[s].pc = "lookup"
          /\ slot'[s] # slot[s]
          /\ slot[s].pid \in deletedIds) =>
            (slot'[s].pc = "exit" /\ slot'[s].status = 404)]_vars

\* C4: get_product, update_product and delete_product on an id that matches
\* no row answer 404 with detail "Product not found" and leave the table as
\* it was; update_product does not create the row.
C4_UnknownIdIsNotFound ==
    [][\A s \in Slots :
         (/\ slot[s].op \in {"get", "update", "delete"}
          /\ slot[s].pc = "lookup"
          /\ slot'[s] # slot[s]
          /\ RowsOf(products, slot[s].pid) = {}) =>
            /\ slot'[s].pc = "exit"
            /\ slot'[s].status = 404
            /\ slot'[s].body = [detail |-> "Product not found"]
            /\ products' = products]_vars

C4_Witness ==
    \E s \in Slots :
        /\ slot[s].op = "update" /\ slot[s].pc = "exit" /\ slot[s].status = 404
        /\ products # {}

\* C5: update_product on an existing id overwrites the four mutable fields
\* of that row with the submitted values; the id of the row and every other
\* row stay as they were.
C5_UpdateOverwritesTheFourFields ==
    [][\A s \in Slots :
         (Steps(s, "update", "commit") /\ RowsOf(products, slot[s].pid) # {}) =>
            products' = {IF r._id = slot[s].pid
                         THEN Product(r._id, ProductInput(slot[s].form))
                         ELSE r : r \in products}]_vars

\* C6: starting from an empty table, a get_products after N creates and
\* nothing else returns exactly N records, one per create, each with the
\* four values submitted to it (in any order).
C6_ListAfterCreates ==
    [][\A s \in Slots :
         (Steps(s, "list", "query") /\ pure) =>
            /\ slot'[s].status = 200
            /\ SameBag(slot'[s].body, created)]_vars

C6_Witness ==
    \E s \in Slots :
        /\ slot[s].op = "list" /\ slot[s].pc = "exit" /\ slot[s].status = 200
        /\ pure /\ Len(created) >= 2
        /\ SameBag(slot[s].body, created)

\* C7: a create or update request with a missing field or a field of the
\* wrong type is answered 422 on arrival: it never reaches its handler, and
\* the table after the request is the table before it.
C7_MalformedInputIsRejected ==
    [][\A s \in Slots :
         /\ (slot'[s].op \in {"create", "update"} /\ slot'[s].pc \notin {"idle", "exit"})
               => ~Malformed(slot'[s].form)
         /\ (slot[s].pc = "idle" /\ slot'[s].pc = "exit") =>
               /\ slot'[s].status = 422
               /\ slot'[s].body.detail # {}
               /\ products' = products]_vars

C7_Witness ==
    \E s \in Slots :
        /\ slot[s].op = "update" /\ slot[s].pc = "exit" /\ slot[s].status = 422
        /\ slot[s].body = [detail |-> {"price"}]
        /\ products # {}

\* C8: a request holds a session of its own from its arrival on, and the
\* session is closed when the request has ended, however its handler ended;
\* no session is held by two requests.
C8_SessionPerRequest ==
    \A s \in Slots :
        /\ slot[s].pc = "idle" => ~slot[s].open
        /\ slot[s].pc # "idle" => slot[s].open
        /\ \A t \in Slots \ {s} : (slot[s].open /\ slot[t].open) => slot[s].sid # slot[t].sid

C8_Witness ==
    /\ raised
    /\ issued >= 2
    /\ \A s \in Slots : slot[s].pc = "idle" /\ ~slot[s].open

\* C9: when two update_product requests on the same existing row are in
\* flight together, neither is rejected and the row is left, in all four
\* fields, as the input of the one that committed last.
C9_LastWriteWins ==
    [][\A s \in Slots : \A t \in Slots \ {s} :
         (/\ Steps(s, "update", "commit")
          /\ slot[t].op = "update"
          /\ slot[t].pid = slot[s].pid
          /\ slot[t].pc \in {"commit", "refresh"}
          /\ RowsOf(products, slot[s].pid) # {}) =>
            /\ slot'[s].pc = "refresh"
            /\ \A r \in RowsOf(products', slot[s].pid) :
                  ProductOutput(r) = ProductInput(slot[s].form)]_vars

\* C10: a delete_product request ends in one of two ways, under every
\* interleaving: 404 "Product not found" when no row matched, or 200 when a
\* row was found and this request removed it, so that no row is reported
\* deleted by two requests.
C10_DeleteReportsItsOwnRemoval ==
    [][\A s \in Slots :
         (slot[s].op = "delete" /\ Answered(s)) =>
            \/ /\ slot'[s].status = 404
               /\ slot'[s].body = [detail |-> "Product not found"]
               /\ products' = products
            \/ /\ slot'[s].status = 200
               /\ slot'[s].body = [message |-> "Product deleted successfully"]
               /\ RowsOf(products, slot[s].pid) # {}
               /\ products' = products \ RowsOf(products, slot[s].pid)]_vars

====
